---- MODULE Spec2Model ----
(***************************************************************************)
(* Hybrid retrieval over a Qdrant collection: the bulk indexer             *)
(* (index_data.py), the query orchestrator (hybrid_searcher.py) and the   *)
(* HTTP facade (service.py).                                               *)
(*                                                                         *)
(* Strings are sequences of one-character strings, so that formatting     *)
(* (f"user_{n}") and parsing (int(key.replace("doc", ""))) are computed.   *)
(* Vector values are abstracted to the name of the space they live in;    *)
(* the payload keeps "_id" and "user_id" ("title" and "text" are copied   *)
(* through by the code and read by no decision).                           *)
(***************************************************************************)
EXTENDS Integers, Sequences, FiniteSets, TLC

VARIABLES
    corpus,          \* the "_id" column of the loaded dataset split (index_data.py:11)
    numUsers,        \* config.NUM_USERS
    batchSize,       \* config.BATCH_SIZE
    dataset,         \* "_id" column after the MAX_DOCUMENTS limit (index_data.py:15-19)
    pc,              \* position of the indexing script
    processed_docs,  \* index_data.py:119
    collection,      \* the collection config.COLLECTION_NAME in the storage engine
    runs,            \* number of times the indexing script has been started
    log,             \* storage-engine calls issued by the current run, in order
    uploaded,        \* ordinals whose point the current run has upserted
    failure,         \* the exception that ended the current run, if any
    searcher,        \* service.py's module-level searcher
    search           \* the last search request and its response

vars == <<corpus, numUsers, batchSize, dataset, pc, processed_docs, collection,
          runs, log, uploaded, failure, searcher, search>>

----------------------------------------------------------------------------
(* Bounds of the model *)

MaxDocs == 4

MaxUsers == 3

MaxBatch == 2

MaxRuns == 2

----------------------------------------------------------------------------
(* Program constants (config.py, index_data.py) *)

SHARD_NUMBER == 3

REPLICATION_FACTOR == 2

PREFETCH_LIMIT == 50

RERANK_LIMIT == 10

\* hnsw m of the dense space at creation (index_data.py:89)
DEFERRED_M == 0

\* hnsw m of the late-interaction space (index_data.py:99)
DISABLED_M == 0

\* hnsw m of the dense space after re-enabling (index_data.py:178)
ACTIVE_M == 16

DENSE_VECTOR_NAME == "dense_vector"

SPARSE_VECTOR_NAME == "sparse_vector"

LATE_INTERACTION_VECTOR_NAME == "late_interaction_vector"

PAYLOAD_INDEX_FIELD == "user_id"

----------------------------------------------------------------------------
(* Strings *)

DigitChars == <<"0", "1", "2", "3", "4", "5", "6", "7", "8", "9">>

IsDigit(c) == \E d \in 1..Len(DigitChars) : DigitChars[d] = c

DigitValue(c) == (CHOOSE d \in 1..Len(DigitChars) : DigitChars[d] = c) - 1

Min(a, b) == IF a <= b THEN a ELSE b

\* str(n) for n >= 0, as f"...{n}" formats it
RECURSIVE Str(_)
Str(n) ==
    IF n < Len(DigitChars) THEN <<DigitChars[n + 1]>>
    ELSE Str(n \div Len(DigitChars)) \o <<DigitChars[(n % Len(DigitChars)) + 1]>>

DocPrefix == <<"d", "o", "c">>

StartsWithDoc(s) == Len(s) >= Len(DocPrefix) /\ SubSeq(s, 1, Len(DocPrefix)) = DocPrefix

\* s.replace("doc", ""): every non-overlapping occurrence removed, left to right
RECURSIVE ReplaceDoc(_)
ReplaceDoc(s) ==
    IF s = <<>> THEN <<>>
    ELSE IF StartsWithDoc(s) THEN ReplaceDoc(SubSeq(s, Len(DocPrefix) + 1, Len(s)))
    ELSE <<Head(s)>> \o ReplaceDoc(Tail(s))

RECURSIVE DecimalValue(_)
DecimalValue(s) ==
    IF s = <<>> THEN 0
    ELSE DecimalValue(SubSeq(s, 1, Len(s) - 1)) * Len(DigitChars) + DigitValue(s[Len(s)])

Raised(exc) == [ok |-> FALSE, error |-> exc]

Returned(v) == [ok |-> TRUE, value |-> v]

\* int(s) over the alphabet of the keys: digits only, at least one
ParseInt(s) ==
    IF s # <<>> /\ \A i \in 1..Len(s) : IsDigit(s[i])
    THEN Returned(DecimalValue(s))
    ELSE Raised("ValueError")

\* id=int(batch["_id"][i].replace("doc", ""))
PointId(key) == ParseInt(ReplaceDoc(key))

\* the key of the document at ordinal k of BeIR/nq: 'doc0', 'doc1', ...
DocKey(k) == DocPrefix \o Str(k)

UserPrefix == <<"u", "s", "e", "r", "_">>

\* user_id_str = f"user_{user_id_num}"
UserIdStr(n) == UserPrefix \o Str(n)

----------------------------------------------------------------------------
(* Tenant assignment *)

\* user_id_num = min(global_index // docs_per_user, config.NUM_USERS - 1)
UserIdNum(global_index, docs_per_user, num_users) ==
    IF docs_per_user = 0 THEN Raised("ZeroDivisionError")
    ELSE Returned(Min(global_index \div docs_per_user, num_users - 1))

\* docs_per_user = len(dataset) // config.NUM_USERS
DocsPerUser(len, num_users) == len \div num_users

----------------------------------------------------------------------------
(* The dataset *)

\* A key whose remainder after stripping 'doc' is no integer
MalformedKeys == {DocPrefix \o <<"x">>, DocPrefix}

WellFormedCorpus == [k \in 1..MaxDocs |-> DocKey(k - 1)]

\* The corpus split as loaded: keys 'doc0', 'doc1', ... with at most one
\* malformed key
Corpora ==
    {WellFormedCorpus} \cup
    {[WellFormedCorpus EXCEPT ![k] = bad] : k \in 1..MaxDocs, bad \in MalformedKeys}

\* dataset.select(range(MAX_DOCUMENTS)) when MAX_DOCUMENTS < len(dataset)
LimitDataset(ds, max_documents) ==
    IF max_documents < Len(ds) THEN SubSeq(ds, 1, max_documents) ELSE ds

\* dataset.iter(batch_size): the keys of the batch that starts at ordinal `start`
BatchKeys(ds, start, size) == SubSeq(ds, start + 1, Min(start + size, Len(ds)))

----------------------------------------------------------------------------
(* The storage engine's collection *)

NoCollection == [exists |-> FALSE]

\* qdrant_client.create_collection(...)
CreatedCollection ==
    [exists |-> TRUE,
     vectors |->
        (DENSE_VECTOR_NAME :>
            [distance |-> "COSINE", quantization |-> "binary", hnsw_m |-> DEFERRED_M])
        @@
        (LATE_INTERACTION_VECTOR_NAME :>
            [distance |-> "COSINE", comparator |-> "MAX_SIM", hnsw_m |-> DISABLED_M]),
     sparse_vectors |-> (SPARSE_VECTOR_NAME :> [modifier |-> "IDF"]),
     shard_number |-> SHARD_NUMBER,
     replication_factor |-> REPLICATION_FACTOR,
     payload_index |-> {},
     points |-> <<>>]

\* The vector spaces the schema of collection c declares
DeclaredSpaces(c) == DOMAIN c.vectors \cup DOMAIN c.sparse_vectors

\* models.PointStruct(id=..., vector={dense, sparse}, payload={...})
PointStruct(id, key, user_id_str) ==
    [id |-> id,
     vector |-> {DENSE_VECTOR_NAME, SPARSE_VECTOR_NAME},
     payload |-> [_id |-> key, user_id |-> user_id_str]]

\* Faulty variant: takes the position within the batch for the global
\* ordinal (processed_docs is not added).
RECURSIVE BuildPointsLocalIndex(_, _, _, _, _, _)
BuildPointsLocalIndex(keys, i, processed, docs_per_user, num_users, acc) ==
    IF i > Len(keys) THEN Returned(acc)
    ELSE LET global_index == i - 1
             user_id_num == UserIdNum(global_index, docs_per_user, num_users)
             id == PointId(keys[i])
         IN  IF ~user_id_num.ok THEN Raised(user_id_num.error)
             ELSE IF ~id.ok THEN Raised(id.error)
             ELSE BuildPointsLocalIndex(keys, i + 1, processed, docs_per_user, num_users,
                              Append(acc, PointStruct(id.value, keys[i],
                                                      UserIdStr(user_id_num.value))))

\* The for-loop over one batch: the list points_to_upload, or the first
\* exception raised while building it
RECURSIVE BuildPoints(_, _, _, _, _, _)
BuildPoints(keys, i, processed, docs_per_user, num_users, acc) ==
    IF i > Len(keys) THEN Returned(acc)
    ELSE LET global_index == processed + (i - 1)
             user_id_num == UserIdNum(global_index, docs_per_user, num_users)
             id == PointId(keys[i])
         IN  IF ~user_id_num.ok THEN Raised(user_id_num.error)
             ELSE IF ~id.ok THEN Raised(id.error)
             ELSE BuildPoints(keys, i + 1, processed, docs_per_user, num_users,
                              Append(acc, PointStruct(id.value, keys[i],
                                                      UserIdStr(user_id_num.value))))

\* The points of a collection after the engine has applied the first n
\* points of an upsert (a later point with the same id overwrites)
RECURSIVE Upsert(_, _, _)
Upsert(points, new, n) ==
    IF n = 0 THEN points
    ELSE LET before == Upsert(points, new, n - 1)
             p == new[n]
         IN  [id \in DOMAIN before \cup {p.id} |->
                 IF id = p.id THEN [vector |-> p.vector, payload |-> p.payload]
                 ELSE before[id]]

----------------------------------------------------------------------------
(* The indexing script, index_data.py *)

NoFailure == [cause |-> "None", batch |-> 0]

Abort(cause, batch) ==
    /\ pc' = "Aborted"
    /\ failure' = [cause |-> cause, batch |-> batch]

\* 1-based number of the batch the loop is about to take
BatchNumber == (processed_docs \div batchSize) + 1

\* Lines 10-71: load and limit the dataset, initialise the models and the
\* client. The script can be run again once a run has ended.
StartRunWithin(max_runs) ==
    /\ pc \in {"NotStarted", "Ready", "Aborted"}
    /\ runs < max_runs
    /\ runs' = runs + 1
    /\ log' = <<>>
    /\ uploaded' = {}
    /\ processed_docs' = 0
    /\ \E max_documents \in 0..MaxDocs :
          /\ dataset' = LimitDataset(corpus, max_documents)
          /\ \/ /\ Len(dataset') = 0          \* dense_embeddings[0] on an empty list
                /\ Abort("IndexError", 0)
             \/ /\ Len(dataset') > 0          \* a model fails to load or to embed
                /\ Abort("ModelUnavailable", 0)
             \/ /\ Len(dataset') > 0
                /\ pc' = "Initialized"
                /\ failure' = NoFailure
    /\ UNCHANGED <<corpus, numUsers, batchSize, collection, searcher, search>>

StartRun == StartRunWithin(MaxRuns)

\* Faulty variant: creates the collection anew whether or not it exists.
EnsureCollectionRecreate ==
    /\ pc = "Initialized"
    /\ \/ /\ log' = log \o <<"collection_exists">>
          /\ Abort("StorageUnavailable", 0)
          /\ UNCHANGED collection
       \/ /\ log' = log \o <<"collection_exists", "create_collection">>
          /\ collection' = CreatedCollection
          /\ pc' = "SchemaEnsured"
          /\ UNCHANGED failure
    /\ UNCHANGED <<corpus, numUsers, batchSize, dataset, processed_docs, runs,
                   uploaded, searcher, search>>

\* Lines 73-111: create the collection unless it exists
EnsureCollection ==
    /\ pc = "Initialized"
    /\ \/ /\ log' = log \o <<"collection_exists">>
          /\ Abort("StorageUnavailable", 0)
          /\ UNCHANGED collection
       \/ /\ collection.exists
          /\ log' = log \o <<"collection_exists">>
          /\ pc' = "SchemaEnsured"
          /\ UNCHANGED <<collection, failure>>
       \/ /\ ~collection.exists
          /\ log' = log \o <<"collection_exists", "create_collection">>
          /\ collection' = CreatedCollection
          /\ pc' = "SchemaEnsured"
          /\ UNCHANGED failure
    /\ UNCHANGED <<corpus, numUsers, batchSize, dataset, processed_docs, runs,
                   uploaded, searcher, search>>

\* Faulty variant: logs a failed batch and goes on with the next one.
LoadBatchSkipOnError ==
    /\ pc \in {"SchemaEnsured", "Loading"}
    /\ processed_docs < Len(dataset)
    /\ LET keys == BatchKeys(dataset, processed_docs, batchSize)
           built == BuildPoints(keys, 1, processed_docs,
                                DocsPerUser(Len(dataset), numUsers), numUsers, <<>>)
       IN  /\ pc' = "Loading"
           /\ processed_docs' = processed_docs + Len(keys)
           /\ IF built.ok
              THEN /\ log' = Append(log, "upload_points")
                   /\ collection' = [collection EXCEPT
                         !.points = Upsert(@, built.value, Len(built.value))]
                   /\ uploaded' = uploaded \cup
                         (processed_docs..(processed_docs + Len(keys) - 1))
                   /\ UNCHANGED failure
              ELSE /\ failure' = [cause |-> built.error, batch |-> BatchNumber]
                   /\ UNCHANGED <<log, collection, uploaded>>
    /\ UNCHANGED <<corpus, numUsers, batchSize, dataset, runs, searcher, search>>

\* Lines 121-160: one iteration of the batch loop
LoadBatch ==
    /\ pc \in {"SchemaEnsured", "Loading"}
    /\ processed_docs < Len(dataset)
    /\ LET keys == BatchKeys(dataset, processed_docs, batchSize)
           built == BuildPoints(keys, 1, processed_docs,
                                DocsPerUser(Len(dataset), numUsers), numUsers, <<>>)
       IN  \/ /\ Abort("EmbeddingFailed", BatchNumber)     \* passage_embed raises
              /\ UNCHANGED <<log, collection, uploaded, processed_docs>>
           \/ /\ ~built.ok                                  \* the for-loop raises
              /\ Abort(built.error, BatchNumber)
              /\ UNCHANGED <<log, collection, uploaded, processed_docs>>
           \/ /\ built.ok                                   \* upload_points raises
              /\ log' = Append(log, "upload_points")
              /\ \E applied \in 0..Len(built.value) :
                    /\ collection' = [collection EXCEPT
                          !.points = Upsert(@, built.value, applied)]
                    /\ uploaded' = uploaded \cup
                          (processed_docs..(processed_docs + applied - 1))
              /\ Abort("StorageUnavailable", BatchNumber)
              /\ UNCHANGED processed_docs
           \/ /\ built.ok
              /\ log' = Append(log, "upload_points")
              /\ collection' = [collection EXCEPT
                    !.points = Upsert(@, built.value, Len(built.value))]
              /\ uploaded' = uploaded \cup
                    (processed_docs..(processed_docs + Len(keys) - 1))
              /\ processed_docs' = processed_docs + Len(keys)
              /\ pc' = "Loading"
              /\ UNCHANGED failure
    /\ UNCHANGED <<corpus, numUsers, batchSize, dataset, runs, searcher, search>>

\* Faulty variant: adds the payload index without waiting for the loop to end.
EnsurePayloadIndexEarly ==
    /\ pc \in {"SchemaEnsured", "Loading"}
    /\ log' = Append(log, "create_payload_index")
    /\ collection' = [collection EXCEPT !.payload_index = @ \cup {PAYLOAD_INDEX_FIELD}]
    /\ pc' = "Finalizing"
    /\ UNCHANGED <<corpus, numUsers, batchSize, dataset, processed_docs, runs,
                   uploaded, failure, searcher, search>>

\* Lines 162-169: after the loop, add the keyword index on the tenant field
EnsurePayloadIndex ==
    /\ pc \in {"SchemaEnsured", "Loading"}
    /\ processed_docs = Len(dataset)
    /\ log' = Append(log, "create_payload_index")
    /\ \/ /\ Abort("StorageUnavailable", 0)
          /\ UNCHANGED collection
       \/ /\ collection' = [collection EXCEPT
                !.payload_index = @ \cup {PAYLOAD_INDEX_FIELD}]
          /\ pc' = "Finalizing"
          /\ UNCHANGED failure
    /\ UNCHANGED <<corpus, numUsers, batchSize, dataset, processed_docs, runs,
                   uploaded, searcher, search>>

\* Faulty variant: flips the parameter: a second finalization defers again.
FinalizeIndexToggle ==
    /\ pc = "Finalizing"
    /\ log' = Append(log, "update_collection")
    /\ collection' = [collection EXCEPT
          !.vectors[DENSE_VECTOR_NAME].hnsw_m =
              IF @ = DEFERRED_M THEN ACTIVE_M ELSE DEFERRED_M]
    /\ pc' = "Ready"
    /\ UNCHANGED <<corpus, numUsers, batchSize, dataset, processed_docs, runs,
                   uploaded, failure, searcher, search>>

\* Faulty variant: re-enables HNSW construction on every vector space.
FinalizeIndexAllSpaces ==
    /\ pc = "Finalizing"
    /\ log' = Append(log, "update_collection")
    /\ \/ /\ Abort("StorageUnavailable", 0)
          /\ UNCHANGED collection
       \/ /\ collection' = [collection EXCEPT
                !.vectors = [name \in DOMAIN @ |-> [@[name] EXCEPT !.hnsw_m = ACTIVE_M]]]
          /\ pc' = "Ready"
          /\ UNCHANGED failure
    /\ UNCHANGED <<corpus, numUsers, batchSize, dataset, processed_docs, runs,
                   uploaded, searcher, search>>

\* Lines 171-183: re-enable HNSW construction on the dense space
FinalizeIndex ==
    /\ pc = "Finalizing"
    /\ log' = Append(log, "update_collection")
    /\ \/ /\ Abort("StorageUnavailable", 0)
          /\ UNCHANGED collection
       \/ /\ collection' = [collection EXCEPT
                !.vectors[DENSE_VECTOR_NAME].hnsw_m = ACTIVE_M]
          /\ pc' = "Ready"
          /\ UNCHANGED failure
    /\ UNCHANGED <<corpus, numUsers, batchSize, dataset, processed_docs, runs,
                   uploaded, searcher, search>>

----------------------------------------------------------------------------
(* The storage engine's query: prefetch, then rerank *)

None == [isNone |-> TRUE]

Some(v) == [isNone |-> FALSE, value |-> v]

\* Python's truth value of a `str | None`
Truthy(opt) == ~opt.isNone /\ opt.value # <<>>

\* Filter(must=[FieldCondition(key, MatchValue(value))]) on a stored point
Matches(point, filter) ==
    filter.isNone \/ point.payload[filter.value.key] = filter.value.match

\* The ids a prefetch may return: points that hold a vector in the space and
\* pass the filter. The dense space returns the `limit` nearest; the sparse
\* space returns at most `limit` of the points that share a term with the query.
PrefetchCandidates(points, prefetch) ==
    LET eligible == {id \in DOMAIN points :
                        /\ prefetch.using \in points[id].vector
                        /\ Matches(points[id], prefetch.filter)}
    IN  IF prefetch.using = DENSE_VECTOR_NAME
        THEN {S \in SUBSET eligible :
                 Cardinality(S) = Min(prefetch.limit, Cardinality(eligible))}
        ELSE {S \in SUBSET eligible : Cardinality(S) <= prefetch.limit}

\* The rerank stage over the union of the prefetched candidates. What the
\* engine does with a candidate that stores no vector in the rerank space is
\* its own contract: it may leave the candidate out or keep it with a default
\* score. Scores are abstracted: any `limit` of the scored candidates may be
\* the nearest ones.
Rerank(points, candidates, using, limit) ==
    LET stored == {id \in candidates : using \in points[id].vector}
    IN  UNION {{R \in SUBSET scored :
                   Cardinality(R) = Min(limit, Cardinality(scored))} :
               scored \in {stored, candidates}}

\* with_payload=["title", "user_id", "text"], with_vectors=False
ScoredPoint(points, id) == [id |-> id, payload |-> [user_id |-> points[id].payload.user_id]]

\* qdrant_client.query_points(prefetch=[dense, sparse], query=late, using=..., limit=...):
\* the result sets the engine may return
QueryPoints(points, prefetch_queries, using, limit) ==
    UNION {UNION {{ {ScoredPoint(points, id) : id \in R} :
                     R \in Rerank(points, dense \cup sparse, using, limit)} :
                  sparse \in PrefetchCandidates(points, prefetch_queries[2])} :
           dense \in PrefetchCandidates(points, prefetch_queries[1])}

----------------------------------------------------------------------------
(* The orchestrator, hybrid_searcher.py *)

\* Lines 73-84: query_filter, built only `if target_user_id:`
QueryFilter(target_user_id) ==
    IF Truthy(target_user_id)
    THEN Some([key |-> PAYLOAD_INDEX_FIELD, match |-> target_user_id.value])
    ELSE None

\* Faulty variant: leaves the filter off the sparse prefetch.
PrefetchQueriesSparseUnfiltered(query_filter) ==
    <<[using |-> DENSE_VECTOR_NAME, limit |-> PREFETCH_LIMIT, filter |-> query_filter],
      [using |-> SPARSE_VECTOR_NAME, limit |-> PREFETCH_LIMIT, filter |-> None]>>

\* Lines 86-100: the two prefetches, both under query_filter
PrefetchQueries(query_filter) ==
    <<[using |-> DENSE_VECTOR_NAME, limit |-> PREFETCH_LIMIT, filter |-> query_filter],
      [using |-> SPARSE_VECTOR_NAME, limit |-> PREFETCH_LIMIT, filter |-> query_filter]>>

EmbeddingModels == <<"dense", "sparse", "late_interaction">>

\* Faulty variant: treats a failed late-interaction embedding as a missing,
\* optional representation and goes on.
QueryEmbeddingsLateOptional(query_text) ==
    {[calls |-> SubSeq(EmbeddingModels, 1, n), failed |-> EmbeddingModels[n],
      raised |-> n < Len(EmbeddingModels)] : n \in 1..Len(EmbeddingModels)}
    \cup {[calls |-> EmbeddingModels, failed |-> "None", raised |-> FALSE]}

\* Lines 66-71: the three query_embed calls in order. Each provider may
\* fail; the first failure raises and the later calls are not made.
QueryEmbeddings(query_text) ==
    {[calls |-> SubSeq(EmbeddingModels, 1, n), failed |-> EmbeddingModels[n],
      raised |-> TRUE] : n \in 1..Len(EmbeddingModels)}
    \cup {[calls |-> EmbeddingModels, failed |-> "None", raised |-> FALSE]}

\* What a search did and answered: the status, the query_embed calls made,
\* the provider that failed, whether query_points was issued and with which
\* prefetches, and the points returned
Response(status, embedded, failed, queried, prefetch, results) ==
    [status |-> status, embedded |-> embedded, failed |-> failed,
     queried |-> queried, prefetch |-> prefetch, results |-> results]

\* HybridSearcher.search(query_text, target_user_id): the responses it may
\* produce against the collection as it is. query_points raises when the
\* engine is unreachable or the collection does not exist.
HybridSearch(query_text, target_user_id) ==
    LET prefetch_queries == PrefetchQueries(QueryFilter(target_user_id))
    IN  UNION {
          IF e.raised
          THEN {Response("Raised", e.calls, e.failed, FALSE, <<>>, {})}
          ELSE {Response("Raised", e.calls, e.failed, TRUE, prefetch_queries, {})}
               \cup
               (IF collection.exists
                THEN {Response("Ok", e.calls, e.failed, TRUE, prefetch_queries, r) :
                         r \in QueryPoints(collection.points, prefetch_queries,
                                           LATE_INTERACTION_VECTOR_NAME, RERANK_LIMIT)}
                ELSE {})
          : e \in QueryEmbeddings(query_text)}

\* No request is being served
NoSearch == [via |-> "none"]

\* The query texts and tenant filters of the requests
QueryTexts == {<<>>, <<"q">>}

TenantFilters == {None, Some(<<>>), Some(UserIdStr(0)), Some(UserIdStr(1)),
                  Some(UserIdStr(MaxUsers))}

\* hybrid_searcher.py, __main__: search called on the orchestrator itself
DirectSearch ==
    /\ search = NoSearch
    /\ \E query_text \in QueryTexts, target_user_id \in TenantFilters :
          \E r \in HybridSearch(query_text, target_user_id) :
             search' = [via |-> "direct", query |-> query_text,
                        user_id |-> target_user_id, response |-> r]
    /\ UNCHANGED <<corpus, numUsers, batchSize, dataset, pc, processed_docs,
                   collection, runs, log, uploaded, failure, searcher>>

----------------------------------------------------------------------------
(* The facade, service.py *)

\* Lines 27-34: the searcher is built once, when the service starts; a
\* failure of the constructor leaves it None
ServiceStart == {"Ready", "None"}

\* search_documents(query, user_id): the responses of GET /api/search
SearchDocuments(query, user_id) ==
    IF searcher = "None"
    THEN {Response("ServiceUnavailable", <<>>, "None", FALSE, <<>>, {})}   \* 503
    ELSE IF query = <<>>
    THEN {Response("InvalidQuery", <<>>, "None", FALSE, <<>>, {})}         \* 400
    ELSE {IF r.status = "Ok" THEN r
          ELSE [r EXCEPT !.status = "InternalError"]                       \* 500
          : r \in HybridSearch(query, user_id)}

ServiceSearch ==
    /\ search = NoSearch
    /\ \E query \in QueryTexts, user_id \in TenantFilters :
          \E r \in SearchDocuments(query, user_id) :
             search' = [via |-> "service", query |-> query,
                        user_id |-> user_id, response |-> r]
    /\ UNCHANGED <<corpus, numUsers, batchSize, dataset, pc, processed_docs,
                   collection, runs, log, uploaded, failure, searcher>>

\* The response leaves the process: the points are returned to the caller
\* (hybrid_searcher.py:124) or sent as SearchResponse / HTTPException
\* (service.py:81); no query state is kept.
Reply ==
    /\ search # NoSearch
    /\ search' = NoSearch
    /\ UNCHANGED <<corpus, numUsers, batchSize, dataset, pc, processed_docs,
                   collection, runs, log, uploaded, failure, searcher>>

----------------------------------------------------------------------------
(* Specifications *)

Init ==
    /\ corpus \in Corpora
    /\ numUsers \in 1..MaxUsers
    /\ batchSize \in 1..MaxBatch
    /\ dataset = <<>>
    /\ pc = "NotStarted"
    /\ processed_docs = 0
    /\ collection = NoCollection
    /\ runs = 0
    /\ log = <<>>
    /\ uploaded = {}
    /\ failure = NoFailure
    /\ searcher \in ServiceStart
    /\ search = NoSearch

\* The indexing script, run up to MaxRuns times against the same engine
Next ==
    \/ StartRun
    \/ EnsureCollection
    \/ LoadBatch
    \/ EnsurePayloadIndex
    \/ FinalizeIndex

Spec == Init /\ [][Next]_vars

\* One indexing run over a well-formed corpus, with searches through the
\* service and on the orchestrator at any moment of it
FirstRun == StartRunWithin(1)

SearchNext ==
    \/ FirstRun
    \/ EnsureCollection
    \/ LoadBatch
    \/ EnsurePayloadIndex
    \/ FinalizeIndex
    \/ ServiceSearch
    \/ DirectSearch
    \/ Reply

SearchInit == Init /\ corpus = WellFormedCorpus

SearchSpec == SearchInit /\ [][SearchNext]_vars

----------------------------------------------------------------------------
(* Properties *)

Range(seq) == {seq[i] : i \in 1..Len(seq)}

Positions(seq, op) == {i \in 1..Len(seq) : seq[i] = op}

Served == search.via # "none"

\* The tenant ids the partition assigns: user_0 .. user_{N-1}
AssignedTenants == {UserIdStr(n) : n \in 0..(numUsers - 1)}

\* C1: a search given a tenant id t attaches the same equality filter
\* user_id = t to the dense and to the sparse prefetch, and every point it
\* returns has payload user_id = t.
C1_FilteredResultsBelongToTenant ==
    (Served /\ Truthy(search.user_id) /\ search.response.queried) =>
        LET t == search.user_id.value
            equals_t == Some([key |-> PAYLOAD_INDEX_FIELD, match |-> t])
        IN  /\ \A i \in 1..Len(search.response.prefetch) :
                  search.response.prefetch[i].filter = equals_t
            /\ \A p \in search.response.results : p.payload.user_id = t

\* A filtered search has returned points while the collection also holds
\* points of another tenant.
C1_Witness ==
    /\ Served
    /\ Truthy(search.user_id)
    /\ search.response.status = "Ok"
    /\ search.response.results # {}
    /\ collection.exists
    /\ \E id \in DOMAIN collection.points :
          collection.points[id].payload.user_id # search.user_id.value

\* C2: for the corpus size L and the tenant count N of any run, the tenant
\* assignment is defined for every ordinal in [0, L) and yields a tenant
\* number in [0, N), also when L < N.
C2_AssignmentDefinedOnEveryOrdinal ==
    pc \in {"SchemaEnsured", "Loading", "Finalizing", "Ready"} =>
    \A ordinal \in 0..(Len(dataset) - 1) :
        LET n == UserIdNum(ordinal, DocsPerUser(Len(dataset), numUsers), numUsers)
        IN  n.ok /\ n.value \in 0..(numUsers - 1)

\* C3: a search with an empty query text fails with InvalidQuery and makes
\* no query_embed and no query_points call, through the service (when its
\* searcher is available) as well as on the orchestrator itself.
C3_EmptyQueryRejectedBeforeAnyCall ==
    (Served /\ search.query = <<>> /\ (search.via = "service" => searcher = "Ready")) =>
        /\ search.response.status = "InvalidQuery"
        /\ search.response.embedded = <<>>
        /\ ~search.response.queried

\* C4: when the late-interaction query embedding fails after the dense and
\* the sparse one succeeded, the search ends in an error, issues no
\* query_points and returns no points.
C4_LateEmbeddingFailureFailsSearch ==
    (Served /\ search.response.failed = "late_interaction") =>
        /\ search.response.embedded = EmbeddingModels
        /\ search.response.status \in {"Raised", "InternalError"}
        /\ ~search.response.queried
        /\ search.response.results = {}

\* The late-interaction embedding of a query has failed against a
\* populated collection, once through the service.
C4_Witness ==
    /\ Served
    /\ search.via = "service"
    /\ search.response.failed = "late_interaction"
    /\ search.response.status = "InternalError"
    /\ collection.exists
    /\ DOMAIN collection.points # {}

\* C5: a search whose tenant filter value is none of the assigned tenants
\* user_0 .. user_{N-1} (the empty string included) returns no points.
C5_UnknownTenantYieldsNothing ==
    (Served /\ ~search.user_id.isNone /\ search.user_id.value \notin AssignedTenants) =>
        search.response.results = {}

\* C6: when the collection exists, the collection-creation step issues no
\* create_collection and leaves the collection as it is.
C6_EnsureCollectionIdempotent ==
    [][(pc = "Initialized" /\ collection.exists) =>
          (collection' = collection /\ "create_collection" \notin Range(log'))]_vars

\* A second run has passed the collection-creation step against the
\* collection the first run created, populated and finalized.
C6_Witness ==
    /\ runs >= 2
    /\ pc = "SchemaEnsured"
    /\ log = <<"collection_exists">>
    /\ collection.exists
    /\ DOMAIN collection.points # {}
    /\ collection.vectors[DENSE_VECTOR_NAME].hnsw_m = ACTIVE_M

\* C7: once the dense space's hnsw m is 16, no step of the program sets it
\* back (nor removes the collection).
C7_FinalizeIsOneWay ==
    [][(collection.exists /\ collection.vectors[DENSE_VECTOR_NAME].hnsw_m = ACTIVE_M) =>
          (collection'.exists /\ collection'.vectors[DENSE_VECTOR_NAME].hnsw_m = ACTIVE_M)]_vars

\* A complete second run, FinalizeIndex included, has ended against a
\* collection that an earlier run had finalized.
C7_Witness ==
    /\ runs >= 2
    /\ pc = "Ready"
    /\ "create_collection" \notin Range(log)
    /\ collection.vectors[DENSE_VECTOR_NAME].hnsw_m = ACTIVE_M

\* Number of batches dataset.iter(batch_size) yields
NumBatches == (Len(dataset) + batchSize - 1) \div batchSize

\* C8: in every run, create_payload_index is issued only after the upsert
\* of every batch has completed, update_collection only right after
\* create_payload_index, never twice, and a run that ends Ready has issued
\* it exactly once, as its last call.
C8_StepsInOrder ==
    /\ \A i \in Positions(log, "create_payload_index") :
          /\ Positions(log, "upload_points") = (i - NumBatches)..(i - 1)
          /\ uploaded = 0..(Len(dataset) - 1)
          /\ processed_docs = Len(dataset)
          /\ failure.batch = 0
    /\ \A j \in Positions(log, "update_collection") :
          /\ j = Len(log)
          /\ j > 1
          /\ log[j - 1] = "create_payload_index"
    /\ \A i \in Positions(log, "upload_points") :
          \A j \in 1..(i - 1) : log[j] \in {"collection_exists", "create_collection",
                                            "upload_points"}
    /\ Cardinality(Positions(log, "create_payload_index")) <= 1
    /\ Cardinality(Positions(log, "update_collection")) <= 1
    /\ pc = "Finalizing" => log[Len(log)] = "create_payload_index"
    /\ pc = "Ready" => log[Len(log)] = "update_collection"
    /\ pc \in {"SchemaEnsured", "Loading"} =>
          Range(log) \subseteq {"collection_exists", "create_collection", "upload_points"}

\* A run over more than one batch has reached Ready.
C8_Witness ==
    /\ pc = "Ready"
    /\ NumBatches >= 2
    /\ Cardinality(Positions(log, "upload_points")) = NumBatches

\* C9: a failure while loading batch k ends the run: no later batch is
\* upserted, no batch is tried again, neither create_payload_index nor
\* update_collection is issued; after a failure that is not the upsert's
\* own (embedding, identifier parse, tenant assignment) no point of batch k
\* is upserted.
C9_LoadFailureAbortsRun ==
    failure.batch >= 1 =>
        LET k == failure.batch
            before == 0..((k - 1) * batchSize - 1)
            upto == 0..(Min(k * batchSize, Len(dataset)) - 1)
            uploads == Cardinality(Positions(log, "upload_points"))
        IN  /\ pc = "Aborted"
            /\ "create_payload_index" \notin Range(log)
            /\ "update_collection" \notin Range(log)
            /\ before \subseteq uploaded
            /\ uploaded \subseteq upto
            /\ IF failure.cause = "StorageUnavailable"
               THEN uploads = k
               ELSE uploads = k - 1 /\ uploaded = before

\* A malformed key in a batch after the first has ended a run: the batches
\* before it are stored.
C9_Witness ==
    /\ failure.cause = "ValueError"
    /\ failure.batch >= 2
    /\ uploaded # {}

\* C10: every stored point carries a vector in exactly the spaces the
\* collection schema declares.
C10_PointsCarryEveryDeclaredSpace ==
    collection.exists =>
        \A id \in DOMAIN collection.points :
            collection.points[id].vector = DeclaredSpaces(collection)

\* C11: over any sequence of runs against the same collection, a stored
\* point keeps the user_id it was first written with, and every stored
\* user_id is one of user_0 .. user_{N-1}.
C11_UserIdNeverChanges ==
    [][(collection.exists /\ collection'.exists) =>
          /\ \A id \in DOMAIN collection.points \cap DOMAIN collection'.points :
                collection'.points[id].payload.user_id =
                    collection.points[id].payload.user_id
          /\ \A id \in DOMAIN collection'.points :
                collection'.points[id].payload.user_id \in AssignedTenants]_vars

\* Number of the ordinals of the current dataset whose stored point belongs
\* to tenant number n
OwnedBy(n) ==
    Cardinality({g \in 0..(Len(dataset) - 1) :
                    collection.points[g].payload.user_id = UserIdStr(n)})

\* C12: when the loop has taken the whole dataset (L >= N), the stored
\* tenant number does not decrease along the ordinals, tenants 0 .. N-2 own
\* floor(L/N) documents each and tenant N-1 owns floor(L/N) + (L mod N),
\* whatever the batch size.
C12_ContiguousNearEqualBlocks ==
    (pc \in {"Finalizing", "Ready"} /\ failure.batch = 0) =>
        LET L == Len(dataset)
            N == numUsers
        IN  /\ L >= N
            /\ 0..(L - 1) \subseteq DOMAIN collection.points
            /\ \A g \in 0..(L - 1) :
                  collection.points[g].payload.user_id \in AssignedTenants
            /\ \A g, h \in 0..(L - 1) :
                  \A m, n \in 0..(N - 1) :
                     (/\ g <= h
                      /\ collection.points[g].payload.user_id = UserIdStr(m)
                      /\ collection.points[h].payload.user_id = UserIdStr(n)) => m <= n
            /\ \A n \in 0..(N - 2) : OwnedBy(n) = L \div N
            /\ OwnedBy(N - 1) = (L \div N) + (L % N)

\* A run over several batches, with several tenants and a remainder for
\* the last one, has loaded its whole dataset.
C12_Witness ==
    /\ pc = "Ready"
    /\ numUsers >= 2
    /\ Len(dataset) % numUsers # 0
    /\ batchSize >= 2
    /\ NumBatches >= 2

\* What finalization must leave alone: all of the collection but the dense
\* space's hnsw m
FrameOfFinalize(c) ==
    [late |-> c.vectors[LATE_INTERACTION_VECTOR_NAME],
     dense |-> [c.vectors[DENSE_VECTOR_NAME] EXCEPT !.hnsw_m = ACTIVE_M],
     spaces |-> DOMAIN c.vectors,
     sparse |-> c.sparse_vectors,
     shard_number |-> c.shard_number,
     replication_factor |-> c.replication_factor,
     payload_index |-> c.payload_index,
     points |-> c.points]

\* C13: the late-interaction space's hnsw m is 0 whenever the collection
\* exists, and the finalization step changes nothing of the collection but
\* the dense space's hnsw m.
C13_FinalizeChangesDenseOnly ==
    /\ [](collection.exists =>
             collection.vectors[LATE_INTERACTION_VECTOR_NAME].hnsw_m = DISABLED_M)
    /\ [][pc = "Finalizing" =>
             FrameOfFinalize(collection') = FrameOfFinalize(collection)]_vars

\* Finalization has activated the dense space of a populated collection.
C13_Witness ==
    /\ pc = "Ready"
    /\ collection.vectors[DENSE_VECTOR_NAME].hnsw_m = ACTIVE_M
    /\ collection.vectors[LATE_INTERACTION_VECTOR_NAME].hnsw_m = DISABLED_M
    /\ Cardinality(DOMAIN collection.points) >= 2
    /\ "create_collection" \in Range(log)

====
